---- MODULE Spec2Model ----
(***************************************************************************)
(* RecordToDiskPlugin (src/unnamed/part_000): a streaming PCM-to-WAV       *)
(* writer.  The plugin opens a file descriptor, wraps it in an             *)
(* fs.WriteStream, writes a 44-byte header placeholder with a positional   *)
(* fs.writeSync on the first frame, queues every frame's bytes on the      *)
(* stream, and in cleanup() backfills the two size fields with positional  *)
(* fs.writeSync calls before ending the stream.                            *)
(*                                                                         *)
(* The file is modelled byte by byte.  The stream is modelled as Node's    *)
(* fs.WriteStream behaves: one write in flight on the thread pool, later   *)
(* chunks buffered behind it, every stream write applied at the            *)
(* descriptor's current file offset (the stream was created without        *)
(* `start`), the descriptor closed once the stream has finished or was     *)
(* destroyed.  Positional writes (fs.writeSync with a position) do not     *)
(* move the descriptor's file offset.                                      *)
(***************************************************************************)
EXTENDS Integers, Sequences, FiniteSets

VARIABLES
    headerWritten,      \* part_000:13
    totalDataBytes,     \* part_000:14  the counter's bytes below a whole GiB
    totalDataGiB,       \* part_000:14  the counter's whole GiB (it is a double)
    wavSampleRate,      \* part_000:15
    wavBitsPerSample,   \* part_000:16
    wavNumChannels,     \* part_000:17
    onAudioCallback,    \* part_000:10  TRUE when a callback was supplied
    fileDescriptor,     \* part_000:8   [open, pos]: the descriptor's state
    outStream,          \* part_000:9   the fs.WriteStream over the descriptor
    file,               \* the bytes of the output file on disk
    lastCall,           \* the plugin method called last
    raised,             \* the exception that call threw to its caller
    ingestRaised,       \* history: an onAudioData call has thrown
    ingested,           \* history: the samples of every onAudioData call
    headerFrame,        \* history: the format of the frame that triggered the header write
    cleanupCalls,       \* history: number of cleanup calls
    lateIngest,         \* history: an onAudioData call came after a cleanup
    headerWrites,       \* history: header placeholders that reached the file
    sizeWrites,         \* history: size-field writes that reached the file
    syncWrites,         \* history: fs.writeSync calls issued
    streamWrites,       \* history: outStream.write calls made
    lastUserId,         \* history: data.userId of the last onAudioData call
    callbackCalls,      \* history: invocations of the callback
    callbackSeen,       \* history: what the last invocation was given and found
    faults              \* history: injected I/O failures

vars == <<headerWritten, totalDataBytes, totalDataGiB, wavSampleRate, wavBitsPerSample,
          wavNumChannels, onAudioCallback, fileDescriptor, outStream, file,
          lastCall, raised, ingestRaised, ingested, headerFrame, cleanupCalls, lateIngest, headerWrites,
          sizeWrites, syncWrites, streamWrites, lastUserId, callbackCalls,
          callbackSeen, faults>>

plugin == <<headerWritten, totalDataBytes, totalDataGiB, wavSampleRate,
            wavBitsPerSample, wavNumChannels, onAudioCallback>>

\* The record of the calls made to the callback.
forwarded == <<callbackCalls, callbackSeen>>

-----------------------------------------------------------------------------
(* Bounds of the model. *)

MaxFrames == 2
MaxCleanups == 2
MaxFaults == 1
MaxGiB == 4

-----------------------------------------------------------------------------
(* Bytes and buffers. *)

RECURSIVE Pow256(_)
Pow256(n) == IF n = 0 THEN 1 ELSE 256 * Pow256(n - 1)

UInt16Max == 65535

\* The range writeUInt32LE accepts, 0 .. 2^32 - 1.
InUInt32(v) == v >= 0 /\ (v \div 65536) <= UInt16Max

\* Buffer.writeUInt32LE / writeUInt16LE: the n little-endian bytes of v.
LE(v, n) == [i \in 1..n |-> (v \div Pow256(i - 1)) % 256]

\* totalDataBytes is a JavaScript number and passes 2^31: it is held as
\* giB * 2^30 + n with 0 <= n < 2^30, and n + 36 still fits an integer here.
GiB == 1024 * 1024 * 1024

Carry(n) == n \div GiB

Low(n) == n % GiB

\* writeUInt32LE taking any value, reduced modulo 2^32.
InUInt32Wrapping(giB, n) == TRUE

\* The range writeUInt32LE accepts, for the value giB * 2^30 + n.
InUInt32Wide(giB, n) ==
    n >= 0 /\ (giB + Carry(n)) * (GiB \div 65536) <= UInt16Max

\* Buffer.writeUInt32LE: the 4 little-endian bytes of giB * 2^30 + n.
LEWide(giB, n) ==
    [LE(Low(n), 4) EXCEPT ![4] = @ + (giB + Carry(n)) * (GiB \div Pow256(3))]

\* The little-endian unsigned integer held by n bytes of b at 0-based offset off.
RECURSIVE ReadLE(_, _, _)
ReadLE(b, off, n) ==
    IF n = 0 THEN 0 ELSE b[off + 1] + 256 * ReadLE(b, off + 1, n - 1)

Zeros(n) == [i \in 1..n |-> 0]

Max(a, b) == IF a >= b THEN a ELSE b

\* A positional or sequential write of `bytes` at 0-based offset `pos`:
\* the file grows as needed, a gap is zero-filled.
WriteAt(f, pos, bytes) ==
    [i \in 1..Max(Len(f), pos + Len(bytes)) |->
        IF i > pos /\ i <= pos + Len(bytes) THEN bytes[i - pos]
        ELSE IF i <= Len(f) THEN f[i]
        ELSE 0]

RECURSIVE Flatten(_)
Flatten(chunks) ==
    IF chunks = <<>> THEN <<>> ELSE Head(chunks) \o Flatten(Tail(chunks))

-----------------------------------------------------------------------------
(* Inputs: the frames handed to onAudioData (AudioDataWithUser). *)

Format(sampleRate, bitsPerSample, channelCount) ==
    [sampleRate |-> sampleRate, bitsPerSample |-> bitsPerSample,
     channelCount |-> channelCount]

FormatSet ==
    { Format(16000, 16, 1), Format(48000, 16, 2), Format(16000, 24, 2) }

Bytes(base, n) == [i \in 1..n |-> base + i]

\* An Int16Array: a view of `length` 16-bit samples at `byteOffset` of an
\* underlying ArrayBuffer `buffer`.
Int16Array(buffer, byteOffset, length) ==
    [buffer |-> buffer, byteOffset |-> byteOffset, length |-> length]

SampleSet ==
    { Int16Array(<<>>, 0, 0),              \* no samples
      Int16Array(Bytes(30, 8), 4, 2),      \* 2 samples viewed inside 8 bytes
      Int16Array(Bytes(100, 48), 0, 24) }  \* 24 samples, 48 bytes

\* data.userId: the frames come from two speakers; alice's samples start
\* their buffer, bob's are a view further into a shared one.
userIdOf(samples) == IF samples.byteOffset = 0 THEN "alice" ELSE "bob"

\* AudioDataWithUser: the format fields, the samples and the user.
FrameSet ==
    { [sampleRate |-> f.sampleRate, bitsPerSample |-> f.bitsPerSample,
       channelCount |-> f.channelCount, samples |-> x, userId |-> userIdOf(x)] :
      f \in FormatSet, x \in SampleSet }

\* samples.byteLength: the frame's payload length in bytes.
byteLength(samples) == 2 * samples.length

\* The frame's payload: the bytes of the samples the view holds.
PayloadBytes(samples) ==
    SubSeq(samples.buffer, samples.byteOffset + 1,
           samples.byteOffset + byteLength(samples))

\* Buffer.from(samples.buffer): a Buffer over the whole underlying
\* ArrayBuffer, whatever part of it the view covers.
BufferFrom(samples) == samples.buffer

-----------------------------------------------------------------------------
(* The WAV header. *)

WAV_HEADER_SIZE == 44

RIFF == <<82, 73, 70, 70>>
WAVE == <<87, 65, 86, 69>>
FMT == <<102, 109, 116, 32>>
DATA == <<100, 97, 116, 97>>

\* The byte rate of one channel only: numChannels left out of the product.
ByteRateOneChannel(sampleRate, bitsPerSample, numChannels) ==
    (sampleRate * bitsPerSample) \div 8

\* byteRate = sampleRate * numChannels * (bitsPerSample / 8), stored by
\* writeUInt32LE, which keeps the integer part.
ByteRate(sampleRate, bitsPerSample, numChannels) ==
    (sampleRate * numChannels * bitsPerSample) \div 8

\* blockAlign = numChannels * (bitsPerSample / 8), stored by writeUInt16LE.
BlockAlign(bitsPerSample, numChannels) ==
    (numChannels * bitsPerSample) \div 8

\* The 44 bytes writeWavHeaderPlaceholder builds: Buffer.alloc(44, 0), then
\* each field written at its offset; [4..7] and [40..43] stay 0.
WavHeaderPlaceholder(sampleRate, bitsPerSample, numChannels) ==
    LET h0 == Zeros(WAV_HEADER_SIZE)
        h1 == WriteAt(h0, 0, RIFF)
        h2 == WriteAt(h1, 8, WAVE)
        h3 == WriteAt(h2, 12, FMT)
        h4 == WriteAt(h3, 16, LE(16, 4))
        h5 == WriteAt(h4, 20, LE(1, 2))
        h6 == WriteAt(h5, 22, LE(numChannels, 2))
        h7 == WriteAt(h6, 24, LE(sampleRate, 4))
        h8 == WriteAt(h7, 28, LE(ByteRate(sampleRate, bitsPerSample, numChannels), 4))
        h9 == WriteAt(h8, 32, LE(BlockAlign(bitsPerSample, numChannels), 2))
        h10 == WriteAt(h9, 34, LE(bitsPerSample, 2))
    IN  WriteAt(h10, 36, DATA)

\* writeUInt16LE / writeUInt32LE throw ERR_OUT_OF_RANGE outside their range.
HeaderInRange(sampleRate, bitsPerSample, numChannels) ==
    /\ numChannels <= UInt16Max
    /\ InUInt32(sampleRate)
    /\ InUInt32(ByteRate(sampleRate, bitsPerSample, numChannels))
    /\ BlockAlign(bitsPerSample, numChannels) <= UInt16Max
    /\ bitsPerSample <= UInt16Max

-----------------------------------------------------------------------------
(* fs.writeSync(fd, buffer, 0, length, position) on the plugin's descriptor. *)
(* how: "ok" the write lands; "fail" the system call fails (EIO, ENOSPC);    *)
(* on a descriptor the stream has already closed the call either fails with  *)
(* EBADF or, when the process has reused the descriptor number, lands in     *)
(* some other file ("elsewhere").                                            *)

WriteSyncOutcomes(fd, canFail) ==
    IF fd.open
    THEN {"ok"} \cup (IF canFail THEN {"fail"} ELSE {})
    ELSE {"EBADF", "elsewhere"}

WriteSyncThrows(how) == how \in {"fail", "EBADF"}

WriteSyncError(how) == IF how = "fail" THEN "IoError" ELSE "EBADF"

writeSync(f, bytes, position, how) ==
    IF how = "ok" THEN WriteAt(f, position, bytes) ELSE f

-----------------------------------------------------------------------------
(* The fs.WriteStream created over the descriptor (part_000:26).            *)
(* writing: an fs.write is in flight on the thread pool, of `inflight`;     *)
(* buffered: the chunks written while one was in flight; ending: end() was  *)
(* called; destroyed: the stream was destroyed (after it finished or on an  *)
(* error); error: the 'error' the stream emitted, which nothing listens to. *)

NewStream ==
    [writing |-> FALSE, inflight |-> <<>>, buffered |-> <<>>,
     ending |-> FALSE, destroyed |-> FALSE, error |-> "none"]

\* outStream.write(chunk).  After end() the stream errors with
\* ERR_STREAM_WRITE_AFTER_END and is destroyed, which drops the buffered
\* chunks; the call itself returns false and throws nothing.
StreamWrite(s, chunk) ==
    IF s.ending
    THEN IF s.destroyed THEN s
         ELSE [s EXCEPT !.destroyed = TRUE, !.buffered = <<>>,
                        !.error = "ERR_STREAM_WRITE_AFTER_END"]
    ELSE IF s.destroyed THEN s
    ELSE IF s.writing THEN [s EXCEPT !.buffered = Append(@, chunk)]
    ELSE [s EXCEPT !.writing = TRUE, !.inflight = chunk]

\* outStream.end(cb): a second end(), or an end() of an errored stream, only
\* hands the error to cb.
StreamEnd(s) ==
    IF s.ending \/ s.error # "none" THEN s ELSE [s EXCEPT !.ending = TRUE]

\* The stream has nothing left to write.
StreamIdle(s) == ~s.writing /\ s.buffered = <<>>

-----------------------------------------------------------------------------
(* The plugin. *)

NoFormat == Format(0, 0, 0)

\* The callback invoked ahead of the write of line 52.
StateAtCallbackFirst(writes, total, len) ==
    [streamWrites |-> writes, totalDataBytes |-> total]

\* What the callback finds when it is invoked (line 57): the frame's bytes
\* were handed to outStream.write (line 52) and totalDataBytes has grown
\* by their length (line 53).
StateAtCallback(writes, total, len) ==
    [streamWrites |-> writes + 1, totalDataBytes |-> total + len]

\* this.onAudioCallback(samples, data.userId): the arguments of the call
\* and the state it finds.
onAudioCallbackCall(samples, userId, found) ==
    [samples |-> samples, userId |-> userId, found |-> found]

\* No call of the callback was made yet.
NoCall == onAudioCallbackCall(Int16Array(<<>>, 0, 0), "", StateAtCallbackFirst(0, 0, 0))

\* constructor: fs.openSync(outputPath, 'w') creates or truncates the file,
\* the stream is created over the descriptor, nothing is written.
Init ==
    /\ headerWritten = FALSE
    /\ totalDataBytes = 0
    /\ totalDataGiB = 0
    /\ wavSampleRate = 0
    /\ wavBitsPerSample = 0
    /\ wavNumChannels = 0
    /\ onAudioCallback \in BOOLEAN
    /\ fileDescriptor = [open |-> TRUE, pos |-> 0]
    /\ outStream = NewStream
    /\ file = <<>>
    /\ lastCall = "constructor"
    /\ raised = "none"
    /\ ingestRaised = FALSE
    /\ ingested = <<>>
    /\ headerFrame = NoFormat
    /\ cleanupCalls = 0
    /\ lateIngest = FALSE
    /\ headerWrites = 0
    /\ sizeWrites = 0
    /\ syncWrites = 0
    /\ streamWrites = 0
    /\ lastUserId = ""
    /\ callbackCalls = 0
    /\ callbackSeen = NoCall
    /\ faults = 0

\* writeWavHeaderPlaceholder: what the call throws, "none" when it returns.
writeWavHeaderPlaceholderError(sampleRate, bitsPerSample, numChannels, how) ==
    IF ~HeaderInRange(sampleRate, bitsPerSample, numChannels) THEN "RangeError"
    ELSE IF WriteSyncThrows(how) THEN WriteSyncError(how)
    ELSE "none"

\* writeWavHeaderPlaceholder: the file after fs.writeSync(fd, header, 0, 44, 0).
writeWavHeaderPlaceholder(f, sampleRate, bitsPerSample, numChannels, how) ==
    IF ~HeaderInRange(sampleRate, bitsPerSample, numChannels) THEN f
    ELSE writeSync(f, WavHeaderPlaceholder(sampleRate, bitsPerSample, numChannels),
                   0, how)

\* The callback, when one was supplied, is called last; what it throws
\* leaves onAudioData.
CallbackError(hasCallback, cbThrows) ==
    IF hasCallback /\ cbThrows THEN "CallbackError" ELSE "none"

onAudioData(data, how, cbThrows) ==
    LET first == ~headerWritten
        sampleRate == IF first THEN data.sampleRate ELSE wavSampleRate
        bitsPerSample == IF first THEN data.bitsPerSample ELSE wavBitsPerSample
        numChannels == IF first THEN data.channelCount ELSE wavNumChannels
        err == IF first
               THEN writeWavHeaderPlaceholderError(sampleRate, bitsPerSample,
                                                   numChannels, how)
               ELSE "none"
        pcmBuf == BufferFrom(data.samples)
    IN  /\ Len(ingested) < MaxFrames
        /\ lastCall' = "onAudioData"
        /\ ingested' = Append(ingested, data.samples)
        /\ lastUserId' = data.userId
        /\ lateIngest' = (lateIngest \/ cleanupCalls > 0)
        /\ wavSampleRate' = sampleRate
        /\ wavBitsPerSample' = bitsPerSample
        /\ wavNumChannels' = numChannels
        /\ headerFrame' = IF first
                          THEN Format(data.sampleRate, data.bitsPerSample,
                                      data.channelCount)
                          ELSE headerFrame
        /\ syncWrites' = syncWrites + (IF first THEN 1 ELSE 0)
        /\ faults' = faults + (IF first /\ how = "fail" THEN 1 ELSE 0)
        /\ headerWrites' = headerWrites + (IF first /\ how = "ok" THEN 1 ELSE 0)
        /\ file' = IF first
                   THEN writeWavHeaderPlaceholder(file, sampleRate, bitsPerSample,
                                                  numChannels, how)
                   ELSE file
        /\ IF err # "none"
           THEN \* the header write threw: nothing after line 46 ran
                /\ raised' = err
                /\ UNCHANGED <<headerWritten, totalDataBytes, totalDataGiB,
                               outStream, streamWrites, forwarded>>
           ELSE /\ headerWritten' = TRUE
                /\ outStream' = StreamWrite(outStream, pcmBuf)
                /\ streamWrites' = streamWrites + 1
                /\ totalDataBytes' = Low(totalDataBytes + Len(pcmBuf))
                /\ totalDataGiB' = totalDataGiB + Carry(totalDataBytes + Len(pcmBuf))
                /\ IF onAudioCallback
                   THEN /\ callbackCalls' = callbackCalls + 1
                        /\ callbackSeen' =
                             onAudioCallbackCall(data.samples, data.userId,
                                 StateAtCallback(streamWrites, totalDataBytes,
                                                 Len(pcmBuf)))
                   ELSE UNCHANGED forwarded
                /\ raised' = CallbackError(onAudioCallback, cbThrows)
        /\ ingestRaised' = (ingestRaised \/ raised' # "none")
        /\ UNCHANGED <<onAudioCallback, fileDescriptor, cleanupCalls, sizeWrites>>

OnAudioData ==
    \E data \in FrameSet :
        \E how \in (IF headerWritten THEN {"ok"}
                    ELSE WriteSyncOutcomes(fileDescriptor, faults < MaxFaults)) :
            \E cbThrows \in (IF onAudioCallback THEN BOOLEAN ELSE {FALSE}) :
                onAudioData(data, how, cbThrows)

\* cleanup backfilling whatever was ingested.
UpdateSizesAlways(hw, giB, total) == TRUE

\* cleanup backfills only when a header was written and data was counted.
ShouldUpdateSizes(hw, giB, total) == hw /\ (giB > 0 \/ total > 0)

\* updateWavHeaderSizes: what the call throws, "none" when it returns.
\* writeUInt32LE(36 + totalDataBytes) throws before anything is written
\* when the value does not fit 32 bits.
updateWavHeaderSizesError(giB, total, how1, how2) ==
    IF ~InUInt32Wide(giB, 36 + total) THEN "RangeError"
    ELSE IF WriteSyncThrows(how1) THEN WriteSyncError(how1)
    ELSE IF WriteSyncThrows(how2) THEN WriteSyncError(how2)
    ELSE "none"

\* updateWavHeaderSizes with totalDataBytes written at offset 36.
updateWavHeaderSizesAt36(f, giB, total, how1, how2) ==
    IF ~InUInt32Wide(giB, 36 + total) THEN f
    ELSE LET f1 == writeSync(f, LEWide(giB, 36 + total), 4, how1)
         IN  IF WriteSyncThrows(how1) THEN f1
             ELSE writeSync(f1, LEWide(giB, total), 36, how2)

\* updateWavHeaderSizes: the file after the two positional writes, at 4 of
\* 36 + totalDataBytes and at 40 of totalDataBytes; the second is not
\* reached when the first throws.
updateWavHeaderSizes(f, giB, total, how1, how2) ==
    IF ~InUInt32Wide(giB, 36 + total) THEN f
    ELSE LET f1 == writeSync(f, LEWide(giB, 36 + total), 4, how1)
         IN  IF WriteSyncThrows(how1) THEN f1
             ELSE writeSync(f1, LEWide(giB, total), 40, how2)

\* The fs.writeSync calls updateWavHeaderSizes issues, and those that land.
SizeWritesIssued(giB, total, how1) ==
    IF ~InUInt32Wide(giB, 36 + total) THEN 0
    ELSE IF WriteSyncThrows(how1) THEN 1 ELSE 2

SizeWritesLanded(giB, total, how1, how2) ==
    IF ~InUInt32Wide(giB, 36 + total) THEN 0
    ELSE (IF how1 = "ok" THEN 1 ELSE 0)
         + (IF ~WriteSyncThrows(how1) /\ how2 = "ok" THEN 1 ELSE 0)

cleanup(how1, how2) ==
    LET update == ShouldUpdateSizes(headerWritten, totalDataGiB, totalDataBytes)
        inRange == InUInt32Wide(totalDataGiB, 36 + totalDataBytes)
        err == IF update
               THEN updateWavHeaderSizesError(totalDataGiB, totalDataBytes,
                                              how1, how2)
               ELSE "none"
    IN  /\ cleanupCalls < MaxCleanups
        /\ lastCall' = "cleanup"
        /\ cleanupCalls' = cleanupCalls + 1
        /\ file' = IF update
                   THEN updateWavHeaderSizes(file, totalDataGiB, totalDataBytes,
                                             how1, how2)
                   ELSE file
        /\ syncWrites' = syncWrites
                + (IF update
                   THEN SizeWritesIssued(totalDataGiB, totalDataBytes, how1)
                   ELSE 0)
        /\ sizeWrites' = sizeWrites
                + (IF update
                   THEN SizeWritesLanded(totalDataGiB, totalDataBytes, how1, how2)
                   ELSE 0)
        /\ faults' = faults
                + (IF update /\ inRange
                      /\ (how1 = "fail" \/ (how1 = "ok" /\ how2 = "fail"))
                   THEN 1 ELSE 0)
        /\ raised' = err
        \* outStream.end() is reached only when the backfill did not throw
        /\ outStream' = IF err = "none" THEN StreamEnd(outStream) ELSE outStream
        /\ UNCHANGED <<plugin, fileDescriptor, ingestRaised, ingested,
                       headerFrame, lateIngest, headerWrites, streamWrites,
                       lastUserId, forwarded>>

\* The outcomes of the two positional writes: on the open descriptor each
\* may fail; on a closed one both meet the same fate.  No write is made
\* when the sizes are not backfilled or are out of range.
WritesSizes ==
    /\ ShouldUpdateSizes(headerWritten, totalDataGiB, totalDataBytes)
    /\ InUInt32Wide(totalDataGiB, 36 + totalDataBytes)

Cleanup ==
    \E how1 \in (IF WritesSizes
                 THEN WriteSyncOutcomes(fileDescriptor, faults < MaxFaults)
                 ELSE {"ok"}) :
        \E how2 \in (IF how1 = "ok" /\ WritesSizes
                     THEN WriteSyncOutcomes(fileDescriptor, faults < MaxFaults)
                     ELSE {how1}) :
            cleanup(how1, how2)

-----------------------------------------------------------------------------
(* The event loop: the stream's asynchronous steps. *)

\* The fs.write in flight completes: its bytes land at the descriptor's
\* file offset, which advances, and the chunks buffered meanwhile go out
\* together as the next write (writev).  When it fails, the stream emits
\* 'error' and is destroyed, which drops the buffered chunks.
StreamIoDone(failed) ==
    /\ outStream.writing
    /\ IF failed
       THEN /\ outStream' = [outStream EXCEPT !.writing = FALSE, !.inflight = <<>>,
                                              !.buffered = <<>>, !.destroyed = TRUE,
                                              !.error = "IoError"]
            /\ faults' = faults + 1
            /\ UNCHANGED <<file, fileDescriptor>>
       ELSE /\ file' = WriteAt(file, fileDescriptor.pos, outStream.inflight)
            /\ fileDescriptor' = [fileDescriptor EXCEPT
                                    !.pos = @ + Len(outStream.inflight)]
            /\ outStream' = IF outStream.buffered # <<>>
                            THEN [outStream EXCEPT
                                    !.inflight = Flatten(outStream.buffered),
                                    !.buffered = <<>>]
                            ELSE [outStream EXCEPT !.writing = FALSE,
                                                   !.inflight = <<>>]
            /\ UNCHANGED faults
    /\ UNCHANGED <<plugin, lastCall, raised, ingestRaised, ingested, headerFrame,
                   cleanupCalls, lateIngest, headerWrites, sizeWrites, syncWrites,
                   streamWrites, lastUserId, forwarded>>

StreamWriteDone == StreamIoDone(FALSE)

StreamWriteFailed == faults < MaxFaults /\ StreamIoDone(TRUE)

\* The stream has finished (ended with nothing left to write) or was
\* destroyed, and no write is in flight: autoClose closes the descriptor.
StreamClose ==
    /\ fileDescriptor.open
    /\ ~outStream.writing
    /\ (outStream.ending /\ outStream.buffered = <<>>) \/ outStream.destroyed
    /\ fileDescriptor' = [fileDescriptor EXCEPT !.open = FALSE]
    /\ outStream' = [outStream EXCEPT !.destroyed = TRUE]
    /\ UNCHANGED <<plugin, file, lastCall, raised, ingestRaised, ingested, headerFrame,
                   cleanupCalls, lateIngest, headerWrites, sizeWrites,
                   syncWrites, streamWrites, lastUserId, forwarded, faults>>

Next == OnAudioData \/ Cleanup \/ StreamWriteDone \/ StreamWriteFailed \/ StreamClose

Spec == Init /\ [][Next]_vars

\* Node's event loop runs every pending stream operation to completion.
FairSpec == Spec /\ WF_vars(StreamWriteDone \/ StreamWriteFailed) /\ WF_vars(StreamClose)

-----------------------------------------------------------------------------
(* Long recordings.  A recording of several GiB cannot be held byte by     *)
(* byte: RangeSpec starts from the plugin in the middle of one (at 48 kHz, *)
(* 16 bits and 2 channels, 4 GiB are some six hours), after the first      *)
(* onAudioData wrote the header and the stream wrote out every frame       *)
(* handed to it, with totalDataBytes anywhere up to MaxGiB GiB.  There     *)
(* `file` holds the file's first 44 bytes only (the header's place, taken  *)
(* by the first payload bytes as soon as a frame was written out),         *)
(* fileDescriptor.pos the offset's bytes below a whole GiB, and the        *)
(* histories of calls start empty.  The frames ingested from there stay    *)
(* queued in the stream.                                                   *)

\* The counter's bytes below a whole GiB: none, one frame, and 8 bytes
\* short of the count at which 36 + totalDataBytes carries, and at it.
RangeTotals == {0, 48, GiB - 44, GiB - 36}

RangeInit ==
    /\ headerWritten = TRUE
    /\ totalDataGiB \in 0..MaxGiB
    /\ totalDataBytes \in RangeTotals
    /\ headerFrame = Format(48000, 16, 2)
    /\ wavSampleRate = headerFrame.sampleRate
    /\ wavBitsPerSample = headerFrame.bitsPerSample
    /\ wavNumChannels = headerFrame.channelCount
    /\ onAudioCallback \in BOOLEAN
    /\ fileDescriptor = [open |-> TRUE, pos |-> totalDataBytes]
    /\ outStream = NewStream
    /\ file = IF totalDataGiB = 0 /\ totalDataBytes = 0
              THEN WavHeaderPlaceholder(wavSampleRate, wavBitsPerSample,
                                        wavNumChannels)
              ELSE SubSeq(Bytes(100, 48), 1, WAV_HEADER_SIZE)
    /\ lastCall = "onAudioData"
    /\ raised = "none"
    /\ ingestRaised = FALSE
    /\ ingested = <<>>
    /\ cleanupCalls = 0
    /\ lateIngest = FALSE
    /\ headerWrites = 1
    /\ sizeWrites = 0
    /\ syncWrites = 1
    /\ streamWrites = 0
    /\ lastUserId = ""
    /\ callbackCalls = 0
    /\ callbackSeen = NoCall
    /\ faults = 0

RangeNext == OnAudioData \/ Cleanup \/ StreamClose

RangeSpec == RangeInit /\ [][RangeNext]_vars

-----------------------------------------------------------------------------
(* What the properties below speak of. *)

\* The payload bytes of the frames ingested so far, in call order, and
\* their total length: the sum of the frames' samples.byteLength.
RECURSIVE PayloadOf(_)
PayloadOf(frames) ==
    IF frames = <<>> THEN <<>>
    ELSE PayloadBytes(Head(frames)) \o PayloadOf(Tail(frames))

RECURSIVE PayloadLength(_)
PayloadLength(frames) ==
    IF frames = <<>> THEN 0
    ELSE byteLength(Head(frames)) + PayloadLength(Tail(frames))

\* The samples cover their whole underlying buffer and are not empty.
WholeBuffer(samples) ==
    /\ samples.length > 0
    /\ samples.byteOffset = 0
    /\ byteLength(samples) = Len(samples.buffer)

PlainFrames == \A i \in 1..Len(ingested) : WholeBuffer(ingested[i])

\* Every file write has completed and the descriptor is closed.
Settled == StreamIdle(outStream) /\ ~fileDescriptor.open

\* The step is an onAudioData call / a cleanup call.
IsIngest == Len(ingested') = Len(ingested) + 1
IsCleanup == cleanupCalls' = cleanupCalls + 1

\* The bytes the stream still has to write.
Pending(s) == s.inflight \o Flatten(s.buffered)

-----------------------------------------------------------------------------
\* C1: after n >= 1 onAudioData calls followed by cleanup, once every file
\* write has completed, ChunkSize (offset 4) is 36 + sum(b_i), Subchunk2Size
\* (offset 40) is sum(b_i) and the file is 44 + sum(b_i) bytes long, b_i being
\* the frames' payload byte lengths.  (The frames' formats do not affect the
\* sizes, so every state reached is reached with one fixed format too.)
\* Stated for frames of at least one sample that cover their whole buffer.
RoundTripSizes ==
    (/\ Len(ingested) >= 1
     /\ PlainFrames
     /\ cleanupCalls >= 1
     /\ ~lateIngest
     /\ faults = 0
     /\ Settled)
    => /\ Len(file) = WAV_HEADER_SIZE + PayloadLength(ingested)
       /\ ReadLE(file, 4, 4) = 36 + PayloadLength(ingested)
       /\ ReadLE(file, 40, 4) = PayloadLength(ingested)

\* C2: after onAudioData(F1) then onAudioData(F2), once the queued writes
\* have completed, the file from offset 44 on is F1's payload followed by
\* F2's, and offsets 0..43 still hold the header.  Stated for frames of at
\* least one sample that cover their whole buffer.
PayloadInOrderAfterHeader ==
    (/\ Len(ingested) = 2
     /\ PlainFrames
     /\ cleanupCalls = 0
     /\ faults = 0
     /\ StreamIdle(outStream))
    => /\ Len(file) = WAV_HEADER_SIZE + PayloadLength(ingested)
       /\ SubSeq(file, WAV_HEADER_SIZE + 1, Len(file)) = PayloadOf(ingested)
       /\ SubSeq(file, 1, WAV_HEADER_SIZE)
            = WavHeaderPlaceholder(headerFrame.sampleRate,
                                   headerFrame.bitsPerSample,
                                   headerFrame.channelCount)

\* C3: cleanup is a barrier: the size fields are written only when every
\* payload write queued before has been applied to the file, and no payload
\* write is applied after the size fields were written.
CleanupIsBarrier ==
    [][/\ (sizeWrites' > sizeWrites) => StreamIdle(outStream)
       /\ (fileDescriptor'.pos > fileDescriptor.pos) => sizeWrites = 0]_vars

\* C4: a second cleanup is a no-op: it leaves the file, the stream and the
\* plugin's fields as they were, issues no file write and throws nothing.
CleanupIdempotent ==
    [][(IsCleanup /\ cleanupCalls >= 1)
        => /\ file' = file
           /\ outStream' = outStream
           /\ syncWrites' = syncWrites
           /\ raised' = "none"
           /\ UNCHANGED plugin]_vars

\* C5: construction followed by cleanup with no onAudioData call writes no
\* header and no size field: the file stays zero bytes long, cleanup throws
\* nothing, and the descriptor is closed or its close is the pending step of
\* the ended stream.
EmptyStreamLeavesEmptyFile ==
    (ingested = <<>> /\ cleanupCalls >= 1)
    => /\ file = <<>>
       /\ syncWrites = 0
       /\ headerWrites = 0
       /\ sizeWrites = 0
       /\ raised = "none"
       /\ outStream.ending
       /\ ~fileDescriptor.open \/ ENABLED StreamClose

EmptyStreamClosed ==
    /\ ingested = <<>>
    /\ cleanupCalls >= 1
    /\ ~fileDescriptor.open
    /\ file = <<>>

\* The fields of a 44-byte header placeholder for format fmt, read back
\* from the first bytes of f.
HeaderFieldsOf(f, fmt) ==
    /\ Len(f) >= 44
    /\ SubSeq(f, 1, 4) = <<82, 73, 70, 70>>          \* 'RIFF' at 0
    /\ ReadLE(f, 4, 4) = 0                           \* ChunkSize placeholder
    /\ SubSeq(f, 9, 12) = <<87, 65, 86, 69>>         \* 'WAVE' at 8
    /\ SubSeq(f, 13, 16) = <<102, 109, 116, 32>>     \* 'fmt ' at 12
    /\ ReadLE(f, 16, 4) = 16
    /\ ReadLE(f, 20, 2) = 1
    /\ ReadLE(f, 22, 2) = fmt.channelCount
    /\ ReadLE(f, 24, 4) = fmt.sampleRate
    /\ 8 * ReadLE(f, 28, 4) = fmt.sampleRate * fmt.channelCount * fmt.bitsPerSample
    /\ 8 * ReadLE(f, 32, 2) = fmt.channelCount * fmt.bitsPerSample
    /\ ReadLE(f, 34, 2) = fmt.bitsPerSample
    /\ SubSeq(f, 37, 40) = <<100, 97, 116, 97>>      \* 'data' at 36
    /\ ReadLE(f, 40, 4) = 0                          \* Subchunk2Size placeholder

\* C6: the header the first onAudioData writes holds, for every format of
\* FormatSet (bitsPerSample a multiple of 8), the documented fields at the
\* documented offsets, little-endian, with 0 at offsets 4 and 40; for
\* (48000, 16, 2) ByteRate is 192000 and BlockAlign 4.
HeaderCorrect ==
    [][(headerWrites' = headerWrites + 1)
        => /\ HeaderFieldsOf(file', headerFrame')
           /\ headerFrame' \in FormatSet
           /\ headerFrame' = Format(48000, 16, 2)
                => /\ ReadLE(file', 28, 4) = 192000
                   /\ ReadLE(file', 32, 2) = 4]_vars

HeaderWritten48k ==
    /\ headerWrites = 1
    /\ headerFrame = Format(48000, 16, 2)
    /\ fileDescriptor.pos = 0
    /\ sizeWrites = 0
    /\ Len(file) = 44
    /\ ReadLE(file, 28, 4) = 192000
    /\ ReadLE(file, 32, 2) = 4

\* C7: an onAudioData call made after cleanup fails with InvalidStateError,
\* writes nothing and leaves totalDataBytes, headerWritten and the format
\* fields unchanged.
IngestAfterCleanupRejected ==
    [][(IsIngest /\ cleanupCalls >= 1)
        => /\ raised' = "InvalidStateError"
           /\ file' = file
           /\ outStream' = outStream
           /\ syncWrites' = syncWrites
           /\ UNCHANGED plugin]_vars

\* C8: an onAudioData call whose callback throws has still queued the
\* frame's payload on the stream and added the payload's byte length to
\* totalDataBytes, and the first cleanup after it leaves size fields that
\* count every ingested frame.
ForwardingIsolation ==
    [][/\ (IsIngest /\ cleanupCalls = 0 /\ raised' = "CallbackError")
            => /\ Pending(outStream')
                    = Pending(outStream) \o PayloadBytes(ingested'[Len(ingested')])
               /\ totalDataBytes'
                    = totalDataBytes + byteLength(ingested'[Len(ingested')])
       /\ (IsCleanup /\ cleanupCalls = 0 /\ ingested # <<>> /\ faults' = 0)
            => /\ ReadLE(file', 4, 4) = 36 + PayloadLength(ingested)
               /\ ReadLE(file', 40, 4) = PayloadLength(ingested)]_vars

\* C9: an exception thrown by the callback never reaches the caller of
\* onAudioData.
CallbackFailureContained ==
    ~(lastCall = "onAudioData" /\ raised = "CallbackError")

\* C10: once cleanup was called the descriptor is eventually closed, whether
\* or not frames were ingested and whether or not the backfill threw.
CleanupEventuallyCloses ==
    (cleanupCalls >= 1) ~> ~fileDescriptor.open

\* C11: an I/O failure is raised by the call that triggered it: every file
\* write that fails, of a frame's payload, of the header or of a size field,
\* fails inside an onAudioData or cleanup call, and that call throws the
\* I/O error to its caller.
IoFailureRaisedByCall ==
    [][(faults' > faults)
        => /\ IsIngest \/ IsCleanup
           /\ raised' = "IoError"]_vars

\* The step's onAudioData call has invoked the callback once, with the
\* frame's samples and userId, after the frame's bytes were handed to
\* outStream.write and totalDataBytes was updated.
ForwardedOnce ==
    /\ callbackCalls' = callbackCalls + 1
    /\ callbackSeen'.samples = ingested'[Len(ingested')]
    /\ callbackSeen'.userId = lastUserId'
    /\ streamWrites' = streamWrites + 1
    /\ callbackSeen'.found.streamWrites = streamWrites'
    /\ callbackSeen'.found.totalDataBytes = totalDataBytes'

\* The errors onAudioData throws when writing the header placeholder fails.
HeaderWriteErrors == {"RangeError", "IoError", "EBADF"}

\* C12 as stated: with a callback supplied, every onAudioData call invokes
\* it exactly once with the frame's samples and userId, after the payload
\* was queued and the counter updated; with none supplied nothing is
\* invoked; cleanup (and the stream's own steps) never invoke it.
CallbackOncePerCall ==
    [][/\ (IsIngest /\ onAudioCallback) => ForwardedOnce
       /\ (IsIngest /\ ~onAudioCallback) => UNCHANGED forwarded
       /\ ~IsIngest => UNCHANGED forwarded]_vars

\* C12 amended: with a callback supplied, every onAudioData call that does
\* not throw while writing the header placeholder invokes it exactly once
\* with the frame's samples and userId, after the frame's bytes were handed
\* to the stream and totalDataBytes was updated; a call whose header write
\* throws does not invoke it; with none supplied nothing is invoked;
\* cleanup (and the stream's own steps) never invoke it.
CallbackOncePerCompletedWrite ==
    [][/\ (IsIngest /\ onAudioCallback /\ raised' \notin HeaderWriteErrors)
            => ForwardedOnce
       /\ (IsIngest /\ onAudioCallback /\ raised' \in HeaderWriteErrors)
            => UNCHANGED <<forwarded, streamWrites, totalDataBytes>>
       /\ (IsIngest /\ ~onAudioCallback) => UNCHANGED forwarded
       /\ ~IsIngest => UNCHANGED forwarded]_vars

\* The first call's header write failed and the callback was not invoked;
\* the second call, of bob's frame, invoked it; cleanup followed.
CallbackInvokedForSecondFrame ==
    /\ onAudioCallback
    /\ Len(ingested) = 2
    /\ faults = 1
    /\ callbackCalls = 1
    /\ callbackSeen.userId = "bob"
    /\ callbackSeen.samples = ingested[2]
    /\ callbackSeen.found.totalDataBytes = totalDataBytes
    /\ cleanupCalls = 1

\* C13: whenever a frame was ingested (headerWritten), cleanup leaves
\* ChunkSize = 36 + totalDataBytes at offset 4 and Subchunk2Size =
\* totalDataBytes at offset 40, also when every frame was empty
\* (totalDataBytes = 0, ChunkSize = 36).  Stated for the first cleanup,
\* with no failing write.
BackfillWheneverHeaderWritten ==
    [][(IsCleanup /\ cleanupCalls = 0 /\ headerWritten /\ faults' = 0)
        => /\ ReadLE(file', 4, 4) = 36 + totalDataBytes
           /\ ReadLE(file', 40, 4) = totalDataBytes]_vars

\* C14: in every reachable state totalDataBytes is the sum of the payload
\* byte lengths (samples.byteLength, two bytes per sample) of the frames
\* ingested so far, also for samples that are a view over part of a larger
\* buffer, and before as well as after cleanup.  Stated for runs with no
\* failing write and no onAudioData call after cleanup.
CounterIsPayloadSum ==
    (faults = 0 /\ ~lateIngest) => totalDataBytes = PayloadLength(ingested)

\* The format fields were assigned from a frame.
FormatIsSet ==
    <<wavSampleRate, wavBitsPerSample, wavNumChannels>> # <<0, 0, 0>>

\* C15: in every reachable state, those after an onAudioData call that
\* failed writing the header placeholder included, the format fields are
\* set if and only if headerWritten is true.
FormatSetIffHeaderWritten ==
    FormatIsSet <=> headerWritten

\* C16: the format is set once and never changes: once the format fields
\* were assigned from a frame no step changes them, the header placeholder
\* reaches the file at most once, and an onAudioData call made after the
\* header was written hands its frame to the stream and counts it while
\* writing nothing over the header.
FormatLatchedOnce ==
    [][/\ FormatIsSet
            => UNCHANGED <<wavSampleRate, wavBitsPerSample, wavNumChannels>>
       /\ headerWrites' <= 1
       /\ (IsIngest /\ headerWritten)
            => /\ file' = file
               /\ headerFrame' = headerFrame
               /\ streamWrites' = streamWrites + 1
               /\ totalDataBytes' = totalDataBytes
                        + Len(BufferFrom(ingested'[Len(ingested')]))]_vars

\* C17: in every state after the first onAudioData and before cleanup,
\* whatever part of the payload was applied to the file, the file's bytes
\* 4..7 and 40..43 hold 0 and the other header fields hold the values of the
\* first frame.  Stated for runs with no failing write and frames of at
\* least one sample that cover their whole buffer.
PlaceholderUntilCleanup ==
    (/\ headerWrites >= 1
     /\ cleanupCalls = 0
     /\ faults = 0
     /\ PlainFrames)
    => HeaderFieldsOf(file, headerFrame)

\* C18: cleanup is safe after a failed ingest.  When an onAudioData call
\* has thrown (its header write failed, or the callback threw after the
\* payload was queued), the cleanup that follows throws nothing and ends
\* the stream, and once every write has completed and the descriptor is
\* closed the file has no header or its size fields match the bytes
\* written: offset 4 holds 36 + totalDataBytes and offset 40
\* totalDataBytes.  Stated for the first cleanup, with no onAudioData call
\* after it and no failing write other than the header's.
CleanupSafeAfterFailedIngest ==
    (/\ ingestRaised
     /\ lastCall = "cleanup"
     /\ cleanupCalls = 1
     /\ ~lateIngest
     /\ faults = 0 \/ headerWrites = 0)
    => /\ raised = "none"
       /\ outStream.ending
       /\ Settled => \/ headerWrites = 0
                     \/ /\ Len(file) >= WAV_HEADER_SIZE
                        /\ ReadLE(file, 4, 4) = 36 + totalDataBytes
                        /\ ReadLE(file, 40, 4) = totalDataBytes

\* The 1-based indices of the file's bytes at offsets 4..7 and 40..43.
SizeFieldBytes == (5..8) \cup (41..44)

\* C19: the backfill of cleanup changes the two 4-byte size fields only:
\* across a cleanup call the file keeps its length and every byte outside
\* offsets 4..7 and 40..43, and totalDataBytes, headerWritten and the format
\* fields are unchanged.
BackfillTouchesOnlySizeFields ==
    [][IsCleanup
        => /\ Len(file') = Len(file)
           /\ \A i \in (1..Len(file)) \ SizeFieldBytes : file'[i] = file[i]
           /\ UNCHANGED <<totalDataBytes, headerWritten, wavSampleRate,
                          wavBitsPerSample, wavNumChannels>>]_vars

\* cleanup has backfilled both size fields of a file holding the header
\* and one frame of 48 bytes.
BackfilledAfterPayload ==
    /\ lastCall = "cleanup"
    /\ sizeWrites = 2
    /\ totalDataBytes = 48
    /\ fileDescriptor.pos = 48
    /\ Len(file) = 48
    /\ ReadLE(file, 4, 4) = 84
    /\ ReadLE(file, 40, 4) = 48
    /\ file[1] = 101
    /\ file[48] = 148

\* 36 + totalDataBytes exceeds 2^32 - 1.
SizeOverflows ==
    (totalDataGiB + Carry(36 + totalDataBytes)) * (GiB \div 65536) > UInt16Max

====
